---- MODULE Spec2Model ----
(***************************************************************************)
(* Model of the CrowdStrike MCP server (mcp_crowdstrike): the response     *)
(* normalizer format_response, the filter construction of search_iocs and  *)
(* the six tool handlers of tools/intel.py; the start of the process under *)
(* its two entry points, the package and the script server.py; several     *)
(* invocations in progress at once.                                        *)
(*                                                                         *)
(* Python values are tagged records; a Python str is a sequence of         *)
(* one-character strings, so that concatenation, substring tests, lower(), *)
(* repr(), json.dumps() and json.loads() are computed character by         *)
(* character.                                                              *)
(***************************************************************************)
EXTENDS Integers, Sequences, FiniteSets, TLC

VARIABLES
    pc,        \* position of the invocation in progress
    tool,      \* name of the handler invoked
    params,    \* its keyword arguments
    request,   \* the call made on the upstream client (falcon)
    response,  \* what the upstream client call produced
    scopes,    \* the required_scopes argument of format_response
    clock,     \* the day datetime.now() gave the invocation, as its ordinal in the year
    result,    \* what the handler (or format_response) produced
    entry,         \* the entry point the process was started through
    CLIENT_ID,     \* os.environ.get("FALCON_CLIENT_ID")
    CLIENT_SECRET, \* os.environ.get("FALCON_CLIENT_SECRET")
    token_valid,   \* falcon_auth.token_valid
    registered,    \* the tools registered with mcp
    phase,         \* how far the start of the process has come
    inflight       \* the frames of the invocations the host runs at once

\* the state the process shares between invocations: credentials, the
\* authentication object of the upstream client, the tool registry
startup == <<entry, CLIENT_ID, CLIENT_SECRET, token_valid, registered, phase>>

vars == <<pc, tool, params, request, response, scopes, clock, result, startup, inflight>>

-----------------------------------------------------------------------------
(* Bounds of the model *)

\* longest resources list of an upstream response
MaxResources == 3
\* longest errors list of an upstream response
MaxErrors == 2
\* largest limit argument
MaxLimit == 2

-----------------------------------------------------------------------------
(* Python values *)

PyNone == [t |-> "none"]
PyInt(n) == [t |-> "int", n |-> n]
PyStr(s) == [t |-> "str", s |-> s]
PyList(l) == [t |-> "list", l |-> l]
\* a dict is the sequence of its items in insertion order
PyDict(d) == [t |-> "dict", d |-> d]
Item(k, v) == [k |-> k, v |-> v]
\* a raised exception, str(e) = m
PyExc(m) == [t |-> "exc", m |-> m]

IsExc(v) == v.t = "exc"

HasKey(d, k) == \E i \in 1..Len(d.d) : d.d[i].k = k

\* d[k] for a key that is present
Lookup(d, k) == d.d[CHOOSE i \in 1..Len(d.d) : d.d[i].k = k].v

\* d.get(k, default)
Get(d, k, default) == IF HasKey(d, k) THEN Lookup(d, k) ELSE default

\* bool(v)
Truthy(v) ==
    CASE v.t = "none" -> FALSE
      [] v.t = "int" -> v.n # 0
      [] v.t = "str" -> v.s # <<>>
      [] v.t = "list" -> v.l # <<>>
      [] v.t = "dict" -> v.d # <<>>

-----------------------------------------------------------------------------
(* str operations *)

Uppers ==
    <<"A","B","C","D","E","F","G","H","I","J","K","L","M","N","O","P","Q","R","S","T","U",
      "V","W","X","Y","Z">>
Lowers ==
    <<"a","b","c","d","e","f","g","h","i","j","k","l","m","n","o","p","q","r","s","t","u",
      "v","w","x","y","z">>
Digits == <<"0","1","2","3","4","5","6","7","8","9">>

LowerChar(c) ==
    IF \E i \in 1..Len(Uppers) : Uppers[i] = c
    THEN Lowers[CHOOSE i \in 1..Len(Uppers) : Uppers[i] = c]
    ELSE c

\* s.lower()
Lower(s) == [i \in 1..Len(s) |-> LowerChar(s[i])]

\* s.startswith(p)
StartsWith(s, p) == Len(p) <= Len(s) /\ SubSeq(s, 1, Len(p)) = p

\* p in s
Contains(s, p) ==
    \E i \in 0..(Len(s) - Len(p)) : SubSeq(s, i + 1, i + Len(p)) = p

\* sep.join(parts)
RECURSIVE Join(_, _)
Join(parts, sep) ==
    IF parts = <<>> THEN <<>>
    ELSE IF Len(parts) = 1 THEN parts[1]
    ELSE parts[1] \o sep \o Join(Tail(parts), sep)

RECURSIVE NatToStr(_)
NatToStr(n) ==
    IF n < 10 THEN <<Digits[n + 1]>>
    ELSE NatToStr(n \div 10) \o <<Digits[(n % 10) + 1]>>

\* str(n) for an int
IntToStr(n) == IF n < 0 THEN <<"-">> \o NatToStr(-n) ELSE NatToStr(n)

\* the body of repr(s): backslash and the enclosing quote are escaped
RECURSIVE ReprEscape(_, _)
ReprEscape(s, q) ==
    IF s = <<>> THEN <<>>
    ELSE (IF s[1] = "\\" THEN <<"\\", "\\">>
          ELSE IF s[1] = q THEN <<"\\", q>>
          ELSE IF s[1] = "\n" THEN <<"\\", "n">>
          ELSE <<s[1]>>) \o ReprEscape(Tail(s), q)

\* repr(s) for a str: single quotes, unless s holds ' and no "
ReprStr(s) ==
    LET q == IF Contains(s, <<"'">>) /\ ~Contains(s, <<"\"">>) THEN "\"" ELSE "'"
    IN <<q>> \o ReprEscape(s, q) \o <<q>>

\* repr(v)
RECURSIVE Repr(_)
Repr(v) ==
    CASE v.t = "none" -> <<"N","o","n","e">>
      [] v.t = "int" -> IntToStr(v.n)
      [] v.t = "str" -> ReprStr(v.s)
      [] v.t = "list" ->
            <<"[">> \o Join([i \in 1..Len(v.l) |-> Repr(v.l[i])], <<",", " ">>) \o <<"]">>
      [] v.t = "dict" ->
            <<"{">>
            \o Join([i \in 1..Len(v.d) |->
                        ReprStr(v.d[i].k) \o <<":", " ">> \o Repr(v.d[i].v)],
                    <<",", " ">>)
            \o <<"}">>

\* str(v), which an f-string applies to {v}
Str(v) == IF v.t = "str" THEN v.s ELSE Repr(v)

-----------------------------------------------------------------------------
(* String literals of the source *)

\* the dictionary keys and keyword names the source reads and writes
K ==
    \* "status_code"
    [ status_code |-> <<"s","t","a","t","u","s","_","c","o","d","e">>,
      \* "body"
      body |-> <<"b","o","d","y">>,
      \* "errors"
      errors |-> <<"e","r","r","o","r","s">>,
      \* "message"
      message |-> <<"m","e","s","s","a","g","e">>,
      \* "code"
      code |-> <<"c","o","d","e">>,
      \* "resources"
      resources |-> <<"r","e","s","o","u","r","c","e","s">>,
      \* "id"
      id |-> <<"i","d">>,
      \* "name"
      name |-> <<"n","a","m","e">>,
      \* "actors"
      actors |-> <<"a","c","t","o","r","s">>,
      \* "actor"
      actor |-> <<"a","c","t","o","r">>,
      \* "iocs"
      iocs |-> <<"i","o","c","s">>,
      \* "indicator"
      indicator |-> <<"i","n","d","i","c","a","t","o","r">>,
      \* "type"
      type |-> <<"t","y","p","e">>,
      \* "malicious_confidence"
      malicious_confidence |-> <<"m","a","l","i","c","i","o","u","s","_","c","o","n",
          "f","i","d","e","n","c","e">>,
      \* "published_date"
      published_date |-> <<"p","u","b","l","i","s","h","e","d","_","d","a","t","e">>,
      \* "last_updated"
      last_updated |-> <<"l","a","s","t","_","u","p","d","a","t","e","d">>,
      \* "malware_families"
      malware_families |-> <<"m","a","l","w","a","r","e","_","f","a","m","i","l","i",
          "e","s">>,
      \* "threat_types"
      threat_types |-> <<"t","h","r","e","a","t","_","t","y","p","e","s">>,
      \* "mitre_techniques"
      mitre_techniques |-> <<"m","i","t","r","e","_","t","e","c","h","n","i","q","u",
          "e","s">>,
      \* "labels"
      labels |-> <<"l","a","b","e","l","s">>,
      \* "reports"
      reports |-> <<"r","e","p","o","r","t","s">>,
      \* "relations"
      relations |-> <<"r","e","l","a","t","i","o","n","s">>,
      \* "ioc_details"
      ioc_details |-> <<"i","o","c","_","d","e","t","a","i","l","s">>,
      \* "total_iocs"
      total_iocs |-> <<"t","o","t","a","l","_","i","o","c","s">>,
      \* "iocs_by_type"
      iocs_by_type |-> <<"i","o","c","s","_","b","y","_","t","y","p","e">>,
      \* "time_period"
      time_period |-> <<"t","i","m","e","_","p","e","r","i","o","d">>,
      \* "total_found"
      total_found |-> <<"t","o","t","a","l","_","f","o","u","n","d">>,
      \* "recent_iocs"
      recent_iocs |-> <<"r","e","c","e","n","t","_","i","o","c","s">>,
      \* "filter"
      filter |-> <<"f","i","l","t","e","r">>,
      \* "limit"
      limit |-> <<"l","i","m","i","t">>,
      \* "sort"
      sort |-> <<"s","o","r","t">> ]

\* 'ACTORS (FALCON INTELLIGENCE) READ'
INTEL_ACTORS_READ_SCOPE ==
    <<"A","C","T","O","R","S"," ","(","F","A","L","C","O","N"," ","I","N","T","E","L","L",
      "I","G","E","N","C","E",")"," ","R","E","A","D">>

\* 'INDICATORS (FALCON INTELLIGENCE) READ'
INTEL_IOC_READ_SCOPE ==
    <<"I","N","D","I","C","A","T","O","R","S"," ","(","F","A","L","C","O","N"," ","I","N",
      "T","E","L","L","I","G","E","N","C","E",")"," ","R","E","A","D">>

\* the texts of the source
S ==
    \* "Unknown error"
    [ UnknownError |-> <<"U","n","k","n","o","w","n"," ","e","r","r","o","r">>,
      \* "access denied"
      AccessDenied |-> <<"a","c","c","e","s","s"," ","d","e","n","i","e","d">>,
      \* "authorization failed"
      AuthorizationFailed |-> <<"a","u","t","h","o","r","i","z","a","t","i","o","n"," ",
          "f","a","i","l","e","d">>,
      \* "appropriate API scopes"
      AppropriateScopes |-> <<"a","p","p","r","o","p","r","i","a","t","e"," ","A","P",
          "I"," ","s","c","o","p","e","s">>,
      \* "API Access Denied (403): You don't have the required permissions.\n\nRequired scope(s): "
      DeniedHead |-> <<"A","P","I"," ","A","c","c","e","s","s"," ","D","e","n","i","e",
          "d"," ","(","4","0","3",")",":"," ","Y","o","u"," ","d","o","n","'","t"," ",
          "h","a","v","e"," ","t","h","e"," ","r","e","q","u","i","r","e","d"," ","p",
          "e","r","m","i","s","s","i","o","n","s",".","\n","\n","R","e","q","u","i","r",
          "e","d"," ","s","c","o","p","e","(","s",")",":"," ">>,
      \* "\n\nTo resolve this issue:\n1. Check that your API client has been granted the "
      DeniedResolve |-> <<"\n","\n","T","o"," ","r","e","s","o","l","v","e"," ","t","h",
          "i","s"," ","i","s","s","u","e",":","\n","1","."," ","C","h","e","c","k"," ",
          "t","h","a","t"," ","y","o","u","r"," ","A","P","I"," ","c","l","i","e","n",
          "t"," ","h","a","s"," ","b","e","e","n"," ","g","r","a","n","t","e","d"," ",
          "t","h","e"," ">>,
      \* " permission(s)\n2. Verify your CrowdStrike subscription includes access to this feature\n3. Contact your CrowdStrike administrator for assistance\n\nOriginal error: "
      DeniedTail |-> <<" ","p","e","r","m","i","s","s","i","o","n","(","s",")","\n","2",
          "."," ","V","e","r","i","f","y"," ","y","o","u","r"," ","C","r","o","w","d",
          "S","t","r","i","k","e"," ","s","u","b","s","c","r","i","p","t","i","o","n",
          " ","i","n","c","l","u","d","e","s"," ","a","c","c","e","s","s"," ","t","o",
          " ","t","h","i","s"," ","f","e","a","t","u","r","e","\n","3","."," ","C","o",
          "n","t","a","c","t"," ","y","o","u","r"," ","C","r","o","w","d","S","t","r",
          "i","k","e"," ","a","d","m","i","n","i","s","t","r","a","t","o","r"," ","f",
          "o","r"," ","a","s","s","i","s","t","a","n","c","e","\n","\n","O","r","i","g",
          "i","n","a","l"," ","e","r","r","o","r",":"," ">>,
      \* "API Error: "
      ApiError |-> <<"A","P","I"," ","E","r","r","o","r",":"," ">>,
      \* " - "
      Dash |-> <<" ","-"," ">>,
      \* "Error: "
      Error |-> <<"E","r","r","o","r",":"," ">>,
      \* "No threat actors found"
      NoActors |-> <<"N","o"," ","t","h","r","e","a","t"," ","a","c","t","o","r","s",
          " ","f","o","u","n","d">>,
      \* "No actor details found"
      NoActorDetails |-> <<"N","o"," ","a","c","t","o","r"," ","d","e","t","a","i","l",
          "s"," ","f","o","u","n","d">>,
      \* "No IOCs found matching the criteria"
      NoIocsMatching |-> <<"N","o"," ","I","O","C","s"," ","f","o","u","n","d"," ","m",
          "a","t","c","h","i","n","g"," ","t","h","e"," ","c","r","i","t","e","r","i",
          "a">>,
      \* "No IOC found for indicator: "
      NoIocFor |-> <<"N","o"," ","I","O","C"," ","f","o","u","n","d"," ","f","o","r",
          " ","i","n","d","i","c","a","t","o","r",":"," ">>,
      \* "No IOCs found for threat actor: "
      NoIocsForActor |-> <<"N","o"," ","I","O","C","s"," ","f","o","u","n","d"," ","f",
          "o","r"," ","t","h","r","e","a","t"," ","a","c","t","o","r",":"," ">>,
      \* "No IOCs published in the last "
      NoIocsPublished |-> <<"N","o"," ","I","O","C","s"," ","p","u","b","l","i","s","h",
          "e","d"," ","i","n"," ","t","h","e"," ","l","a","s","t"," ">>,
      \* " days"
      Days |-> <<" ","d","a","y","s">>,
      \* "Last "
      Last |-> <<"L","a","s","t"," ">>,
      \* "unknown"
      Unknown |-> <<"u","n","k","n","o","w","n">>,
      \* "MitreATTCK/"
      MitrePrefix |-> <<"M","i","t","r","e","A","T","T","C","K","/">>,
      \* "'"
      Quote |-> <<"'">>,
      \* "+"
      Plus |-> <<"+">>,
      \* "published_date.desc"
      SortDesc |-> <<"p","u","b","l","i","s","h","e","d","_","d","a","t","e",".","d",
          "e","s","c">>,
      \* "list index out of range"
      IndexError |-> <<"l","i","s","t"," ","i","n","d","e","x"," ","o","u","t"," ","o",
          "f"," ","r","a","n","g","e">>,
      \* "'name'"
      KeyErrorName |-> <<"'","n","a","m","e","'">> ]

\* the pieces of the filter clauses
F ==
    \* "name:'"
    [ name |-> <<"n","a","m","e",":","'">>,
      \* "indicator:'"
      indicator |-> <<"i","n","d","i","c","a","t","o","r",":","'">>,
      \* "type:'"
      type |-> <<"t","y","p","e",":","'">>,
      \* "malware_families:'"
      malware_families |-> <<"m","a","l","w","a","r","e","_","f","a","m","i","l","i",
          "e","s",":","'">>,
      \* "threat_types:'"
      threat_types |-> <<"t","h","r","e","a","t","_","t","y","p","e","s",":","'">>,
      \* "malicious_confidence:'"
      malicious_confidence |-> <<"m","a","l","i","c","i","o","u","s","_","c","o","n",
          "f","i","d","e","n","c","e",":","'">>,
      \* "published_date:>'"
      published_date |-> <<"p","u","b","l","i","s","h","e","d","_","d","a","t","e",":",
          ">","'">>,
      \* "labels.name:*'MitreATTCK/*"
      labels_name |-> <<"l","a","b","e","l","s",".","n","a","m","e",":","*","'","M","i",
          "t","r","e","A","T","T","C","K","/","*">>,
      \* "*'"
      labels_tail |-> <<"*","'">>,
      \* "actors:'"
      actors |-> <<"a","c","t","o","r","s",":","'">> ]

-----------------------------------------------------------------------------
(* Values of the upstream data and arguments the model draws from *)

\* error messages of upstream responses
M ==
    \* "Access Denied"
    [ AccessDenied |-> <<"A","c","c","e","s","s"," ","D","e","n","i","e","d">>,
      \* "Authorization failed."
      AuthFailed |-> <<"A","u","t","h","o","r","i","z","a","t","i","o","n"," ","f","a",
          "i","l","e","d",".">>,
      \* "Forbidden"
      Forbidden |-> <<"F","o","r","b","i","d","d","e","n">>,
      \* "can't"
      Cant |-> <<"c","a","n","'","t">> ]

\* values of upstream records and of arguments
V ==
    \* "a.io"
    [ a_io |-> <<"a",".","i","o">>,
      \* "ff00"
      ff00 |-> <<"f","f","0","0">>,
      \* "x\"y\\z"
      quoted |-> <<"x","\"","y","\\","z">>,
      \* "domain"
      domain |-> <<"d","o","m","a","i","n">>,
      \* "hash_md5"
      hash_md5 |-> <<"h","a","s","h","_","m","d","5">>,
      \* "high"
      high |-> <<"h","i","g","h">>,
      \* "Emotet"
      Emotet |-> <<"E","m","o","t","e","t">>,
      \* "FANCY BEAR"
      FancyBear |-> <<"F","A","N","C","Y"," ","B","E","A","R">>,
      \* "hash_sha256"
      hash_sha256 |-> <<"h","a","s","h","_","s","h","a","2","5","6">>,
      \* "Banking"
      Banking |-> <<"B","a","n","k","i","n","g">>,
      \* "2025-01-31"
      date |-> <<"2","0","2","5","-","0","1","-","3","1">>,
      \* "T1566"
      T1566 |-> <<"T","1","5","6","6">>,
      \* "O'Reilly"
      OReilly |-> <<"O","'","R","e","i","l","l","y">>,
      \* "MitreATTCK/T1566"
      MitreT1566 |-> <<"M","i","t","r","e","A","T","T","C","K","/","T","1","5","6","6">>,
      \* "Other"
      Other |-> <<"O","t","h","e","r">> ]

\* str(e) of exceptions of the upstream call
E ==
    \* "timed out"
    [ Timeout |-> <<"t","i","m","e","d"," ","o","u","t">>,
      \* "Connection refused"
      Refused |-> <<"C","o","n","n","e","c","t","i","o","n"," ","r","e","f","u","s","e",
          "d">> ]

-----------------------------------------------------------------------------
(* json.dumps(v, indent=2) and json.loads(s) *)

\* the body of a JSON string: quote, backslash and newline are escaped
RECURSIVE JsonEscape(_)
JsonEscape(s) ==
    IF s = <<>> THEN <<>>
    ELSE (IF s[1] = "\"" THEN <<"\\", "\"">>
          ELSE IF s[1] = "\\" THEN <<"\\", "\\">>
          ELSE IF s[1] = "\n" THEN <<"\\", "n">>
          ELSE <<s[1]>>) \o JsonEscape(Tail(s))

\* variant: the string body is written without escaping
JsonStrUnescaped(s) == <<"\"">> \o s \o <<"\"">>

JsonStr(s) == <<"\"">> \o JsonEscape(s) \o <<"\"">>

\* a newline and the indentation of a nesting level (indent=2)
NewLine(level) == <<"\n">> \o [i \in 1..(2 * level) |-> " "]

RECURSIVE JsonDumpsAt(_, _)
JsonDumpsAt(v, level) ==
    CASE v.t = "none" -> <<"n","u","l","l">>
      [] v.t = "int" -> IntToStr(v.n)
      [] v.t = "str" -> JsonStr(v.s)
      [] v.t = "list" ->
            IF v.l = <<>> THEN <<"[", "]">>
            ELSE <<"[">> \o NewLine(level + 1)
                 \o Join([i \in 1..Len(v.l) |-> JsonDumpsAt(v.l[i], level + 1)],
                         <<",">> \o NewLine(level + 1))
                 \o NewLine(level) \o <<"]">>
      [] v.t = "dict" ->
            IF v.d = <<>> THEN <<"{", "}">>
            ELSE <<"{">> \o NewLine(level + 1)
                 \o Join([i \in 1..Len(v.d) |->
                             JsonStr(v.d[i].k) \o <<":", " ">>
                             \o JsonDumpsAt(v.d[i].v, level + 1)],
                         <<",">> \o NewLine(level + 1))
                 \o NewLine(level) \o <<"}">>

\* json.dumps(v, indent=2)
JsonDumps(v) == JsonDumpsAt(v, 0)

\* the character at position i, "" past the end
At(s, i) == IF i >= 1 /\ i <= Len(s) THEN s[i] ELSE ""

Parsed(v, i) == [v |-> v, i |-> i]
JsonDecodeError == PyExc(<<"J","S","O","N","D","e","c","o","d","e","E","r","r","o","r">>)

RECURSIVE SkipWs(_, _)
SkipWs(s, i) == IF At(s, i) \in {" ", "\n"} THEN SkipWs(s, i + 1) ELSE i

\* the characters of a JSON string up to its closing quote
RECURSIVE ParseChars(_, _, _)
ParseChars(s, i, acc) ==
    LET c == At(s, i) IN
    IF c = "" THEN Parsed(JsonDecodeError, i)
    ELSE IF c = "\"" THEN Parsed(PyStr(acc), i + 1)
    ELSE IF c = "\\"
         THEN LET e == At(s, i + 1) IN
              IF e = "n" THEN ParseChars(s, i + 2, Append(acc, "\n"))
              ELSE IF e \in {"\"", "\\"} THEN ParseChars(s, i + 2, Append(acc, e))
              ELSE Parsed(JsonDecodeError, i)
    ELSE ParseChars(s, i + 1, Append(acc, c))

DigitValue(c) == (CHOOSE k \in 1..10 : Digits[k] = c) - 1
IsDigit(c) == \E k \in 1..10 : Digits[k] = c

RECURSIVE ParseDigits(_, _, _)
ParseDigits(s, i, acc) ==
    IF IsDigit(At(s, i)) THEN ParseDigits(s, i + 1, 10 * acc + DigitValue(At(s, i)))
    ELSE Parsed(PyInt(acc), i)

ParseNumber(s, i) ==
    IF At(s, i) = "-"
    THEN IF IsDigit(At(s, i + 1))
         THEN LET r == ParseDigits(s, i + 1, 0) IN Parsed(PyInt(-r.v.n), r.i)
         ELSE Parsed(JsonDecodeError, i)
    ELSE IF IsDigit(At(s, i)) THEN ParseDigits(s, i, 0)
    ELSE Parsed(JsonDecodeError, i)

RECURSIVE ParseValue(_, _)
RECURSIVE ParseItems(_, _, _)
RECURSIVE ParseMembers(_, _, _)

\* the elements of an array, from the first one to the closing bracket
ParseItems(s, i, acc) ==
    LET r == ParseValue(s, i)
        j == SkipWs(s, r.i)
    IN IF IsExc(r.v) THEN r
       ELSE IF At(s, j) = "," THEN ParseItems(s, SkipWs(s, j + 1), Append(acc, r.v))
       ELSE IF At(s, j) = "]" THEN Parsed(PyList(Append(acc, r.v)), j + 1)
       ELSE Parsed(JsonDecodeError, j)

\* the members of an object, from the first key to the closing brace
ParseMembers(s, i, acc) ==
    IF At(s, i) # "\"" THEN Parsed(JsonDecodeError, i)
    ELSE
    LET k == ParseChars(s, i + 1, <<>>)
        c == SkipWs(s, k.i)
    IN IF IsExc(k.v) THEN k
       ELSE IF At(s, c) # ":" THEN Parsed(JsonDecodeError, c)
       ELSE
       LET r == ParseValue(s, SkipWs(s, c + 1))
           j == SkipWs(s, r.i)
       IN IF IsExc(r.v) THEN r
          ELSE IF At(s, j) = ","
               THEN ParseMembers(s, SkipWs(s, j + 1), Append(acc, Item(k.v.s, r.v)))
          ELSE IF At(s, j) = "}"
               THEN Parsed(PyDict(Append(acc, Item(k.v.s, r.v))), j + 1)
          ELSE Parsed(JsonDecodeError, j)

ParseValue(s, i) ==
    LET c == At(s, i) IN
    IF c = "n"
    THEN IF i + 3 <= Len(s) /\ SubSeq(s, i, i + 3) = <<"n","u","l","l">> THEN Parsed(PyNone, i + 4)
         ELSE Parsed(JsonDecodeError, i)
    ELSE IF c = "\"" THEN ParseChars(s, i + 1, <<>>)
    ELSE IF c = "["
         THEN LET j == SkipWs(s, i + 1) IN
              IF At(s, j) = "]" THEN Parsed(PyList(<<>>), j + 1)
              ELSE ParseItems(s, j, <<>>)
    ELSE IF c = "{"
         THEN LET j == SkipWs(s, i + 1) IN
              IF At(s, j) = "}" THEN Parsed(PyDict(<<>>), j + 1)
              ELSE ParseMembers(s, j, <<>>)
    ELSE ParseNumber(s, i)

\* json.loads(s): the value, or the error when s is not one JSON document
JsonLoads(s) ==
    LET r == ParseValue(s, SkipWs(s, 1)) IN
    IF IsExc(r.v) THEN r.v
    ELSE IF SkipWs(s, r.i) = Len(s) + 1 THEN r.v
    ELSE JsonDecodeError

-----------------------------------------------------------------------------
(* Outcomes of a call *)

Returned(s) == [kind |-> "return", s |-> s]
Raised(m) == [kind |-> "raise", m |-> m]
NoResult == [kind |-> "none"]

\* placeholder of a variable that the invocation in progress does not use
Unused == [t |-> "unused"]

-----------------------------------------------------------------------------
(* format_response of mcp_crowdstrike/server.py *)

EmptyDict == PyDict(<<>>)

\* [{"message": "Unknown error"}], the default of the 403 branch
DefaultErrors403 == PyList(<<PyDict(<<Item(K.message, PyStr(S.UnknownError))>>)>>)

\* ['Unknown error'], the default of the generic branch
DefaultErrors == PyList(<<PyStr(S.UnknownError)>>)

\* the guidance text of an authorization failure
DeniedMessage(scopes_info, error_message) ==
    S.DeniedHead \o scopes_info \o S.DeniedResolve \o scopes_info \o S.DeniedTail
    \o error_message

\* variant: the test without lower()
IsAuthorizationFailureCaseSensitive(error_message) ==
    \/ Contains(error_message, S.AccessDenied)
    \/ Contains(error_message, S.AuthorizationFailed)

\* the test of lines 40-43
IsAuthorizationFailure(error_message) ==
    \/ Contains(Lower(error_message), S.AccessDenied)
    \/ Contains(Lower(error_message), S.AuthorizationFailed)

\* variant: the generic branch with the default of the 403 branch
GenericErrorDictDefault(status, body) ==
    S.ApiError \o Str(status) \o S.Dash \o Str(Get(body, K.errors, DefaultErrors403))

\* the generic error text of lines 59-63
GenericError(status, body) ==
    S.ApiError \o Str(status) \o S.Dash \o Str(Get(body, K.errors, DefaultErrors))

\* The if of line 31 and the elif of line 57 are one statement: a 403 whose
\* message is no authorization failure leaves the if branch without returning,
\* skips the elif and reaches the return of line 66.
FormatResponse(resp, required_scopes) ==
    LET status == Get(resp, K.status_code, PyNone)
        body == Get(resp, K.body, EmptyDict)
    IN IF status = PyInt(403)
       THEN LET errors == Get(body, K.errors, DefaultErrors403) IN
            IF errors.l = <<>> THEN Raised(S.IndexError)
            ELSE LET error_message == Get(errors.l[1], K.message, PyStr(<<>>)).s
                     scopes_info == IF Truthy(required_scopes) THEN required_scopes.s
                                    ELSE S.AppropriateScopes
                 IN IF IsAuthorizationFailure(error_message)
                    THEN Returned(DeniedMessage(scopes_info, error_message))
                    ELSE Returned(JsonDumps(body))
       ELSE IF status \notin {PyInt(200), PyInt(201)}
            THEN Returned(GenericError(status, body))
            ELSE Returned(JsonDumps(body))

-----------------------------------------------------------------------------
(* Upstream data the model draws from *)

\* records of a resources list
IocA ==
    PyDict(<<Item(K.indicator, PyStr(V.a_io)), Item(K.type, PyStr(V.domain)),
             Item(K.malicious_confidence, PyStr(V.high)),
             Item(K.malware_families, PyList(<<PyStr(V.Emotet)>>))>>)
IocB ==
    PyDict(<<Item(K.indicator, PyStr(V.ff00)), Item(K.type, PyStr(V.hash_md5)),
             Item(K.labels,
                  PyList(<<PyDict(<<Item(K.name, PyStr(V.MitreT1566))>>),
                           PyDict(<<Item(K.name, PyStr(V.Other))>>)>>))>>)
IocC == PyDict(<<Item(K.indicator, PyStr(V.quoted))>>)
ActorA == PyDict(<<Item(K.id, PyInt(7)), Item(K.name, PyStr(V.FancyBear))>>)

Records == {IocA, IocB, IocC, ActorA}

ResourceLists == UNION {[1..n -> Records] : n \in 0..MaxResources}

Messages == {M.AccessDenied, M.AuthFailed, M.Forbidden, M.Cant}

ErrorEntries ==
    {PyDict(<<Item(K.code, PyInt(403)), Item(K.message, PyStr(m))>>) : m \in Messages}
    \cup {PyDict(<<Item(K.code, PyInt(403))>>)}

ErrorLists == UNION {[1..n -> ErrorEntries] : n \in 0..MaxErrors}

Bodies ==
    {EmptyDict}
    \cup {PyDict(<<Item(K.resources, PyList(rs))>>) : rs \in ResourceLists}
    \cup {PyDict(<<Item(K.errors, PyList(es))>>) : es \in ErrorLists}

\* status codes format_response is applied to
StatusCodes == {200, 201, 400, 403, 404, 500}

\* status codes the upstream client answers a handler with
HandlerStatusCodes == {200, 201, 403, 500}

\* the response dictionaries of the upstream client
ResponsesOf(codes) ==
    {PyDict(<<Item(K.status_code, PyInt(c)), Item(K.body, b)>>) :
        c \in codes, b \in Bodies}
    \cup {PyDict(<<Item(K.status_code, PyInt(c))>>) : c \in codes}

Responses == ResponsesOf(StatusCodes)

HandlerResponses == ResponsesOf(HandlerStatusCodes)

\* required_scopes: not given, empty, or the scope of a handler
ScopeArgs ==
    {PyNone, PyStr(<<>>), PyStr(INTEL_ACTORS_READ_SCOPE), PyStr(INTEL_IOC_READ_SCOPE)}

-----------------------------------------------------------------------------
(* The tool handlers of mcp_crowdstrike/tools/intel.py *)

\* default arguments of the handlers
ListDefaultLimit == 10
SearchDefaultLimit == 10
ActorIocsDefaultLimit == 20
RecentDefaultLimit == 20
RecentDefaultDays == 7

Tools ==
    {"list_threat_actors", "get_actor_details", "search_iocs", "get_ioc_details",
     "get_actor_iocs", "get_recent_iocs"}

\* the required_scopes each handler passes to format_response
ScopeOf(t) ==
    IF t \in {"list_threat_actors", "get_actor_details"}
    THEN PyStr(INTEL_ACTORS_READ_SCOPE)
    ELSE PyStr(INTEL_IOC_READ_SCOPE)

\* a call on the upstream client: the method and its keyword arguments
Call(method, kwargs) == [method |-> method, kwargs |-> PyDict(kwargs)]

\* variant: the type clause is appended before the indicator clause
SearchFiltersTypeFirst(p) ==
    (IF Truthy(p.indicator_type)
        THEN <<F.type \o Str(p.indicator_type) \o S.Quote>> ELSE <<>>)
    \o (IF Truthy(p.indicator_value)
        THEN <<F.indicator \o Str(p.indicator_value) \o S.Quote>> ELSE <<>>)
    \o (IF Truthy(p.malware_family)
        THEN <<F.malware_families \o Str(p.malware_family) \o S.Quote>> ELSE <<>>)
    \o (IF Truthy(p.threat_type)
        THEN <<F.threat_types \o Str(p.threat_type) \o S.Quote>> ELSE <<>>)
    \o (IF Truthy(p.malicious_confidence)
        THEN <<F.malicious_confidence \o Str(p.malicious_confidence) \o S.Quote>>
        ELSE <<>>)
    \o (IF Truthy(p.published_after)
        THEN <<F.published_date \o Str(p.published_after) \o S.Quote>> ELSE <<>>)
    \o (IF Truthy(p.mitre_technique)
        THEN <<F.labels_name \o Str(p.mitre_technique) \o F.labels_tail>> ELSE <<>>)

\* the clauses search_iocs appends, in the order of its if statements
SearchFilters(p) ==
    (IF Truthy(p.indicator_value)
        THEN <<F.indicator \o Str(p.indicator_value) \o S.Quote>> ELSE <<>>)
    \o (IF Truthy(p.indicator_type)
        THEN <<F.type \o Str(p.indicator_type) \o S.Quote>> ELSE <<>>)
    \o (IF Truthy(p.malware_family)
        THEN <<F.malware_families \o Str(p.malware_family) \o S.Quote>> ELSE <<>>)
    \o (IF Truthy(p.threat_type)
        THEN <<F.threat_types \o Str(p.threat_type) \o S.Quote>> ELSE <<>>)
    \o (IF Truthy(p.malicious_confidence)
        THEN <<F.malicious_confidence \o Str(p.malicious_confidence) \o S.Quote>>
        ELSE <<>>)
    \o (IF Truthy(p.published_after)
        THEN <<F.published_date \o Str(p.published_after) \o S.Quote>> ELSE <<>>)
    \o (IF Truthy(p.mitre_technique)
        THEN <<F.labels_name \o Str(p.mitre_technique) \o F.labels_tail>> ELSE <<>>)

\* variant: the join without the fallback to None
SearchFilterStringAlwaysJoin(p) == PyStr(Join(SearchFilters(p), S.Plus))

\* filter_string of search_iocs
SearchFilterString(p) ==
    LET filters == SearchFilters(p) IN
    IF filters # <<>> THEN PyStr(Join(filters, S.Plus)) ELSE PyNone

\* days of the months of the clock's year
DaysInMonth == <<31, 28, 31, 30, 31, 30, 31, 31, 30, 31, 30, 31>>

RECURSIVE MonthAndDay(_, _)
MonthAndDay(ordinal, m) ==
    IF ordinal <= DaysInMonth[m] THEN [month |-> m, day |-> ordinal]
    ELSE MonthAndDay(ordinal - DaysInMonth[m], m + 1)

TwoDigits(n) == IF n < 10 THEN <<"0">> \o IntToStr(n) ELSE IntToStr(n)

\* strftime("%Y-%m-%d") of a day of 2025 given by its ordinal in the year
Strftime(ordinal) ==
    LET d == MonthAndDay(ordinal, 1) IN
    IntToStr(2025) \o <<"-">> \o TwoDigits(d.month) \o <<"-">> \o TwoDigits(d.day)

\* date_filter of get_recent_iocs: now() - timedelta(days), formatted
DateFilter(now, days) == Strftime(now - days)

\* the call each handler makes on the upstream client
RequestOf(t, p, now) ==
    CASE t = "list_threat_actors" ->
            Call("query_actor_entities", <<Item(K.limit, p.limit)>>)
      [] t = "get_actor_details" ->
            Call("query_actor_entities",
                 <<Item(K.filter, PyStr(F.name \o Str(p.actor_name) \o S.Quote))>>)
      [] t = "search_iocs" ->
            Call("query_indicator_entities",
                 <<Item(K.filter, SearchFilterString(p)), Item(K.limit, p.limit)>>)
      [] t = "get_ioc_details" ->
            Call("query_indicator_entities",
                 <<Item(K.filter,
                        PyStr(F.indicator \o Str(p.indicator_value) \o S.Quote))>>)
      [] t = "get_actor_iocs" ->
            Call("query_indicator_entities",
                 <<Item(K.filter, PyStr(F.actors \o Str(p.actor_name) \o S.Quote)),
                   Item(K.limit, p.limit)>>)
      [] t = "get_recent_iocs" ->
            Call("query_indicator_entities",
                 <<Item(K.filter,
                        PyStr(F.published_date \o DateFilter(now, p.days.n) \o S.Quote)),
                   Item(K.limit, p.limit), Item(K.sort, PyStr(S.SortDesc))>>)

\* variant: the sentences without the arguments of the invocation
NotFoundWithoutArguments(t, p) ==
    CASE t = "list_threat_actors" -> S.NoActors
      [] t = "get_actor_details" -> S.NoActorDetails
      [] t = "search_iocs" -> S.NoIocsMatching
      [] t = "get_ioc_details" -> S.NoIocFor
      [] t = "get_actor_iocs" -> S.NoIocsForActor
      [] t = "get_recent_iocs" -> S.NoIocsPublished \o S.Days

\* the sentence a handler returns for an empty resources list
NotFound(t, p) ==
    CASE t = "list_threat_actors" -> S.NoActors
      [] t = "get_actor_details" -> S.NoActorDetails
      [] t = "search_iocs" -> S.NoIocsMatching
      [] t = "get_ioc_details" -> S.NoIocFor \o Str(p.indicator_value)
      [] t = "get_actor_iocs" -> S.NoIocsForActor \o Str(p.actor_name)
      [] t = "get_recent_iocs" -> S.NoIocsPublished \o Str(p.days) \o S.Days

\* d[k] = v: the value of an existing key is replaced, a new key goes last
SetItem(d, k, v) ==
    IF HasKey(d, k)
    THEN PyDict([i \in 1..Len(d.d) |-> IF d.d[i].k = k THEN Item(k, v) ELSE d.d[i]])
    ELSE PyDict(Append(d.d, Item(k, v)))

\* the names of the labels that start with "MitreATTCK/"; label["name"] of a
\* label without a name raises KeyError
RECURSIVE MitreTechniques(_, _)
MitreTechniques(labels, acc) ==
    IF labels = <<>> THEN PyList(acc)
    ELSE IF ~HasKey(labels[1], K.name) THEN PyExc(S.KeyErrorName)
    ELSE LET name == Lookup(labels[1], K.name) IN
         MitreTechniques(Tail(labels),
                         IF StartsWith(name.s, S.MitrePrefix) THEN Append(acc, name)
                         ELSE acc)

\* details of get_ioc_details
IocDetails(ioc) ==
    LET mitre == MitreTechniques(Get(ioc, K.labels, PyList(<<>>)).l, <<>>) IN
    IF IsExc(mitre) THEN mitre
    ELSE PyDict(<<Item(K.indicator, Get(ioc, K.indicator, PyNone)),
                  Item(K.type, Get(ioc, K.type, PyNone)),
                  Item(K.malicious_confidence, Get(ioc, K.malicious_confidence, PyNone)),
                  Item(K.published_date, Get(ioc, K.published_date, PyNone)),
                  Item(K.last_updated, Get(ioc, K.last_updated, PyNone)),
                  Item(K.malware_families, Get(ioc, K.malware_families, PyList(<<>>))),
                  Item(K.threat_types, Get(ioc, K.threat_types, PyList(<<>>))),
                  Item(K.actors, Get(ioc, K.actors, PyList(<<>>))),
                  Item(K.mitre_techniques, mitre),
                  Item(K.reports, Get(ioc, K.reports, PyList(<<>>))),
                  Item(K.relations, Get(ioc, K.relations, PyList(<<>>)))>>)

\* the entry get_actor_iocs appends for one IOC
SummaryEntry(ioc) ==
    PyDict(<<Item(K.indicator, Get(ioc, K.indicator, PyNone)),
             Item(K.malicious_confidence, Get(ioc, K.malicious_confidence, PyNone)),
             Item(K.malware_families, Get(ioc, K.malware_families, PyList(<<>>)))>>)

\* variant: the list of a type is replaced by the new entry, not extended
RECURSIVE IocSummaryOverwrite(_, _)
IocSummaryOverwrite(iocs, ioc_summary) ==
    IF iocs = <<>> THEN ioc_summary
    ELSE LET ioc_type == Get(iocs[1], K.type, PyStr(S.Unknown)).s IN
         IocSummaryOverwrite(Tail(iocs),
                             SetItem(ioc_summary, ioc_type,
                                     PyList(<<SummaryEntry(iocs[1])>>)))

\* ioc_summary of get_actor_iocs: the loop over iocs
RECURSIVE IocSummary(_, _)
IocSummary(iocs, ioc_summary) ==
    IF iocs = <<>> THEN ioc_summary
    ELSE LET ioc_type == Get(iocs[1], K.type, PyStr(S.Unknown)).s
             sofar == Get(ioc_summary, ioc_type, PyList(<<>>)).l
         IN IocSummary(Tail(iocs),
                       SetItem(ioc_summary, ioc_type,
                               PyList(Append(sofar, SummaryEntry(iocs[1])))))

\* the record get_recent_iocs appends for one IOC
RecentEntry(ioc) ==
    PyDict(<<Item(K.indicator, Get(ioc, K.indicator, PyNone)),
             Item(K.type, Get(ioc, K.type, PyNone)),
             Item(K.published_date, Get(ioc, K.published_date, PyNone)),
             Item(K.malicious_confidence, Get(ioc, K.malicious_confidence, PyNone)),
             Item(K.malware_families, Get(ioc, K.malware_families, PyList(<<>>))),
             Item(K.threat_types, Get(ioc, K.threat_types, PyList(<<>>)))>>)

\* the payload a handler builds from a non-empty resources list, before json.dumps
Payload(t, p, rs) ==
    CASE t = "list_threat_actors" -> PyDict(<<Item(K.actors, PyList(rs))>>)
      [] t = "get_actor_details" -> PyDict(<<Item(K.actor, rs[1])>>)
      [] t = "search_iocs" -> PyDict(<<Item(K.iocs, PyList(rs))>>)
      [] t = "get_ioc_details" ->
            LET details == IocDetails(rs[1]) IN
            IF IsExc(details) THEN details
            ELSE PyDict(<<Item(K.ioc_details, details)>>)
      [] t = "get_actor_iocs" ->
            PyDict(<<Item(K.actor, p.actor_name),
                     Item(K.total_iocs, PyInt(Len(rs))),
                     Item(K.iocs_by_type, IocSummary(rs, EmptyDict))>>)
      [] t = "get_recent_iocs" ->
            LET recent_iocs == [i \in 1..Len(rs) |-> RecentEntry(rs[i])] IN
            PyDict(<<Item(K.time_period, PyStr(S.Last \o Str(p.days) \o S.Days)),
                     Item(K.total_found, PyInt(Len(recent_iocs))),
                     Item(K.recent_iocs, PyList(recent_iocs))>>)

\* the try block of a handler after the upstream call: `upstream` is the
\* response of the call, or the exception it raised
TryBody(t, p, upstream) ==
    IF IsExc(upstream) THEN Raised(upstream.m)
    ELSE IF Get(upstream, K.status_code, PyNone) # PyInt(200)
         THEN FormatResponse(upstream, ScopeOf(t))
    ELSE LET resources == Get(Get(upstream, K.body, EmptyDict), K.resources, PyList(<<>>))
         IN IF ~Truthy(resources) THEN Returned(NotFound(t, p))
            ELSE LET payload == Payload(t, p, resources.l) IN
                 IF IsExc(payload) THEN Raised(payload.m)
                 ELSE Returned(JsonDumps(payload))

\* variant: no except clause, the exception leaves the handler
ExceptClauseMissing(outcome) == outcome

\* except Exception as e: return f"Error: {str(e)}"
ExceptClause(outcome) ==
    IF outcome.kind = "raise" THEN Returned(S.Error \o outcome.m) ELSE outcome

\* what a handler returns once the upstream call has ended
Handler(t, p, upstream) == ExceptClause(TryBody(t, p, upstream))

\* the texts of the handlers of the script server.py
L ==
    \* "Error querying actor IDs: "
    [ list_threat_actors |-> <<"E","r","r","o","r"," ","q","u","e","r","y","i","n","g"," ","a","c","t","o","r"," ","I","D","s",":"," ">>,
      \* "Error querying actor: "
      get_actor_details |-> <<"E","r","r","o","r"," ","q","u","e","r","y","i","n","g"," ","a","c","t","o","r",":"," ">> ]

\* the try block of a handler of the script server.py, which has its two
\* handlers render a status other than 200 themselves
LegacyTryBody(t, p, upstream) ==
    IF IsExc(upstream) THEN Raised(upstream.m)
    ELSE IF Get(upstream, K.status_code, PyNone) # PyInt(200)
         THEN Returned(L[t] \o Str(Get(Get(upstream, K.body, EmptyDict), K.errors,
                                       DefaultErrors)))
    ELSE LET actors == Get(Get(upstream, K.body, EmptyDict), K.resources, PyList(<<>>))
         IN IF ~Truthy(actors) THEN Returned(NotFound(t, p))
            ELSE Returned(JsonDumps(Payload(t, p, actors.l)))

LegacyHandler(t, p, upstream) == ExceptClause(LegacyTryBody(t, p, upstream))

\* the handler the entry point e registered under the name t
EntryHandler(e, t, p, upstream) ==
    IF e = "server.py" THEN LegacyHandler(t, p, upstream) ELSE Handler(t, p, upstream)

-----------------------------------------------------------------------------
(* Arguments the model invokes the handlers with *)

Limits(default) == {PyInt(n) : n \in 1..MaxLimit} \cup {PyInt(default)}

ActorNames == {PyStr(V.FancyBear), PyStr(V.OReilly)}

IndicatorValues == {PyStr(V.a_io), PyStr(V.quoted)}

DaysArgs == {PyInt(1), PyInt(RecentDefaultDays)}

\* the days datetime.now() may give: 1 March and 10 April
ClockDays == {60, 100}

\* the keyword arguments of search_iocs
SearchParams(iv, it, mf, tt, mc, pa, mt, limit) ==
    [indicator_value |-> iv, indicator_type |-> it, malware_family |-> mf,
     threat_type |-> tt, malicious_confidence |-> mc, published_after |-> pa,
     mitre_technique |-> mt, limit |-> limit]

\* every filter argument absent, empty or set
AllSearchArgs ==
    {SearchParams(iv, it, mf, tt, mc, pa, mt, PyInt(SearchDefaultLimit)) :
        iv \in {PyNone, PyStr(<<>>), PyStr(V.a_io), PyStr(V.OReilly)},
        it \in {PyNone, PyStr(<<>>), PyStr(V.hash_sha256)},
        mf \in {PyNone, PyStr(<<>>), PyStr(V.Emotet)},
        tt \in {PyNone, PyStr(<<>>), PyStr(V.Banking)},
        mc \in {PyNone, PyStr(<<>>), PyStr(V.high)},
        pa \in {PyNone, PyStr(<<>>), PyStr(V.date)},
        mt \in {PyNone, PyStr(<<>>), PyStr(V.T1566)}}

\* a few of them, with every limit
SomeSearchArgs ==
    {SearchParams(PyNone, it, PyNone, PyNone, PyNone, PyNone, mt, l) :
        it \in {PyNone, PyStr(V.hash_sha256)}, mt \in {PyNone, PyStr(V.T1566)},
        l \in Limits(SearchDefaultLimit)}

ArgsOf(t) ==
    CASE t = "list_threat_actors" -> {[limit |-> l] : l \in Limits(ListDefaultLimit)}
      [] t = "get_actor_details" -> {[actor_name |-> a] : a \in ActorNames}
      [] t = "search_iocs" -> SomeSearchArgs
      [] t = "get_ioc_details" -> {[indicator_value |-> v] : v \in IndicatorValues}
      [] t = "get_actor_iocs" ->
            {[actor_name |-> a, limit |-> l] :
                a \in ActorNames, l \in Limits(ActorIocsDefaultLimit)}
      [] t = "get_recent_iocs" ->
            {[days |-> d, limit |-> l] : d \in DaysArgs, l \in Limits(RecentDefaultLimit)}

\* str(e) of the exceptions the upstream call raises
UpstreamErrors == {E.Timeout, E.Refused, <<>>}

-----------------------------------------------------------------------------
(* One invocation of a tool handler at a time *)

\* the values os.environ.get gives for a credential: unset, empty, set
EnvValues == {PyNone, PyStr(<<>>), PyStr(<<"k","e","y">>)}

\* the package mcp_crowdstrike after its start: credentials set, login done
\* with a valid token, the six tools registered, mcp.run() serving
Started ==
    /\ entry = "mcp_crowdstrike"
    /\ CLIENT_ID = PyStr(<<"k","e","y">>)
    /\ CLIENT_SECRET = PyStr(<<"k","e","y">>)
    /\ token_valid = TRUE
    /\ registered = Tools
    /\ phase = "serving"

Init ==
    /\ pc = "idle"
    /\ tool = Unused
    /\ params = Unused
    /\ request = Unused
    /\ response = Unused
    /\ scopes = Unused
    /\ clock = 0
    /\ result = NoResult
    /\ Started
    /\ inflight = <<>>

\* The host invokes handler t with arguments p; the handler runs up to its call
\* on the upstream client.
Invoke(t, p, now) ==
    /\ phase = "serving"
    /\ t \in registered
    /\ pc = "idle"
    /\ tool' = t
    /\ params' = p
    /\ clock' = now
    /\ request' = RequestOf(t, p, now)
    /\ response' = Unused
    /\ result' = NoResult
    /\ pc' = "calling"
    /\ UNCHANGED <<scopes, startup, inflight>>

\* The upstream call returns a response; the handler runs to its return.
UpstreamReturns(r) ==
    /\ pc = "calling"
    /\ response' = r
    /\ result' = EntryHandler(entry, tool, params, r)
    /\ pc' = "done"
    /\ UNCHANGED <<tool, params, request, scopes, clock, startup, inflight>>

\* The upstream call raises; the handler runs to its return.
UpstreamRaises(m) ==
    /\ pc = "calling"
    /\ response' = PyExc(m)
    /\ result' = EntryHandler(entry, tool, params, PyExc(m))
    /\ pc' = "done"
    /\ UNCHANGED <<tool, params, request, scopes, clock, startup, inflight>>

\* The host takes the result; the next invocation may start.
Finish ==
    /\ pc = "done"
    /\ pc' = "idle"
    /\ tool' = Unused
    /\ params' = Unused
    /\ request' = Unused
    /\ response' = Unused
    /\ clock' = 0
    /\ result' = NoResult
    /\ UNCHANGED <<scopes, startup, inflight>>

InvokeAny ==
    \E t \in Tools : \E p \in ArgsOf(t) :
        \E now \in (IF t = "get_recent_iocs" THEN ClockDays ELSE {0}) : Invoke(t, p, now)

Next ==
    \/ InvokeAny
    \/ \E r \in HandlerResponses : UpstreamReturns(r)
    \/ \E m \in UpstreamErrors : UpstreamRaises(m)
    \/ Finish

Spec == Init /\ [][Next]_vars

-----------------------------------------------------------------------------
(* search_iocs with every combination of its filter arguments *)

SearchResponses ==
    {PyDict(<<Item(K.status_code, PyInt(200)),
              Item(K.body, PyDict(<<Item(K.resources, PyList(rs))>>))>>) :
        rs \in {<<>>, <<IocA>>}}

FilterNext ==
    \/ \E p \in AllSearchArgs : Invoke("search_iocs", p, 0)
    \/ \E r \in SearchResponses : UpstreamReturns(r)
    \/ Finish

SpecFilter == Init /\ [][FilterNext]_vars

-----------------------------------------------------------------------------
(* format_response applied to every response and required_scopes argument *)

FormatInit ==
    /\ pc = "format"
    /\ tool = Unused
    /\ params = Unused
    /\ request = Unused
    /\ response \in Responses
    /\ scopes \in ScopeArgs
    /\ clock = 0
    /\ result = NoResult
    /\ Started
    /\ inflight = <<>>

FormatCall ==
    /\ pc = "format"
    /\ result' = FormatResponse(response, scopes)
    /\ pc' = "formatted"
    /\ UNCHANGED <<tool, params, request, response, scopes, clock, startup, inflight>>

FormatNext == FormatCall

SpecFormat == FormatInit /\ [][FormatNext]_vars

-----------------------------------------------------------------------------
(* The IOC handlers on records with any field absent *)

MaxRecords == 2

\* the top-level fields of an IOC record the handlers read
IocFields ==
    {K.indicator, K.type, K.malicious_confidence, K.published_date, K.last_updated,
     K.malware_families, K.threat_types, K.actors, K.labels, K.reports, K.relations}

\* an IOC record with every field the handlers read
FullIoc ==
    PyDict(<<Item(K.indicator, PyStr(V.a_io)), Item(K.type, PyStr(V.domain)),
             Item(K.malicious_confidence, PyStr(V.high)),
             Item(K.published_date, PyStr(V.date)),
             Item(K.last_updated, PyStr(V.date)),
             Item(K.malware_families, PyList(<<PyStr(V.Emotet)>>)),
             Item(K.threat_types, PyList(<<PyStr(V.Banking)>>)),
             Item(K.actors, PyList(<<PyStr(V.FancyBear)>>)),
             Item(K.labels,
                  PyList(<<PyDict(<<Item(K.name, PyStr(V.Other))>>),
                           PyDict(<<Item(K.name, PyStr(V.MitreT1566))>>)>>)),
             Item(K.reports, PyList(<<PyStr(V.T1566)>>)),
             Item(K.relations, PyList(<<PyDict(<<Item(K.id, PyInt(7))>>)>>))>>)

\* the record d without its field k
Without(d, k) == PyDict(SelectSeq(d.d, LAMBDA it : it.k # k))

\* a record one of whose labels entries has no name
NamelessLabelIoc ==
    PyDict(<<Item(K.indicator, PyStr(V.ff00)),
             Item(K.labels,
                  PyList(<<PyDict(<<Item(K.name, PyStr(V.MitreT1566))>>),
                           PyDict(<<Item(K.id, PyInt(7))>>)>>))>>)

FieldRecords ==
    {FullIoc, EmptyDict, NamelessLabelIoc} \cup {Without(FullIoc, k) : k \in IocFields}

RecordResponses ==
    {PyDict(<<Item(K.status_code, PyInt(200)),
              Item(K.body, PyDict(<<Item(K.resources, PyList(rs))>>))>>) :
        rs \in UNION {[1..n -> FieldRecords] : n \in 0..MaxRecords}}

RecordTools == {"get_ioc_details", "get_actor_iocs", "get_recent_iocs"}

RecordArgs(t) ==
    CASE t = "get_ioc_details" -> {[indicator_value |-> PyStr(V.a_io)]}
      [] t = "get_actor_iocs" ->
            {[actor_name |-> PyStr(V.FancyBear), limit |-> PyInt(ActorIocsDefaultLimit)]}
      [] t = "get_recent_iocs" ->
            {[days |-> PyInt(RecentDefaultDays), limit |-> PyInt(RecentDefaultLimit)]}

RecordsNext ==
    \/ \E t \in RecordTools : \E p \in RecordArgs(t) : Invoke(t, p, 60)
    \/ \E r \in RecordResponses : UpstreamReturns(r)
    \/ Finish

SpecRecords == Init /\ [][RecordsNext]_vars

-----------------------------------------------------------------------------
(* The start of the process under its two entry points *)

\* the package (mcp_crowdstrike/server.py, which imports tools/intel.py, which
\* imports auth.py) and the script server.py
EntryPoints == {"mcp_crowdstrike", "server.py"}

\* the tools an entry point registers
ToolsOf(e) ==
    IF e = "server.py" THEN {"list_threat_actors", "get_actor_details"} ELSE Tools

\* variant: only an unset credential counts as missing
CredentialsMissingUnsetOnly(client_id, client_secret) ==
    client_id = PyNone \/ client_secret = PyNone

\* if not CLIENT_ID or not CLIENT_SECRET
CredentialsMissing(client_id, client_secret) ==
    ~Truthy(client_id) \/ ~Truthy(client_secret)

StartupInit ==
    /\ pc = "idle"
    /\ tool = Unused
    /\ params = Unused
    /\ request = Unused
    /\ response = Unused
    /\ scopes = Unused
    /\ clock = 0
    /\ result = NoResult
    /\ entry \in EntryPoints
    /\ CLIENT_ID \in EnvValues
    /\ CLIENT_SECRET \in EnvValues
    /\ token_valid = FALSE
    /\ registered = {}
    /\ phase = "environment"
    /\ inflight = <<>>

\* The check of the credentials: a missing one raises ValueError and the
\* import, hence the process, ends.
CheckCredentials ==
    /\ phase = "environment"
    /\ phase' = IF CredentialsMissing(CLIENT_ID, CLIENT_SECRET) THEN "ValueError"
                ELSE "credentials"
    /\ UNCHANGED <<pc, tool, params, request, response, scopes, clock, result, entry,
                   CLIENT_ID, CLIENT_SECRET, token_valid, registered, inflight>>

\* auth.py: falcon_auth.login(), then InvalidCredentials unless the token is
\* valid; `valid` is what the upstream made of the credentials.
Login(valid) ==
    /\ phase = "credentials"
    /\ entry = "mcp_crowdstrike"
    /\ token_valid' = valid
    /\ phase' = IF valid THEN "client" ELSE "InvalidCredentials"
    /\ UNCHANGED <<pc, tool, params, request, response, scopes, clock, result, entry,
                   CLIENT_ID, CLIENT_SECRET, registered, inflight>>

\* server.py: OAuth2(**creds) and Intel(auth_object=falcon_auth), with no
\* check of the token, whatever the library made of the credentials.
CreateClients(valid) ==
    /\ phase = "credentials"
    /\ entry = "server.py"
    /\ token_valid' = valid
    /\ phase' = "client"
    /\ UNCHANGED <<pc, tool, params, request, response, scopes, clock, result, entry,
                   CLIENT_ID, CLIENT_SECRET, registered, inflight>>

\* the @mcp.tool() decorators of the module that holds the handlers
RegisterTools ==
    /\ phase = "client"
    /\ registered' = ToolsOf(entry)
    /\ phase' = "registered"
    /\ UNCHANGED <<pc, tool, params, request, response, scopes, clock, result, entry,
                   CLIENT_ID, CLIENT_SECRET, token_valid, inflight>>

\* mcp.run(transport="stdio")
Run ==
    /\ phase = "registered"
    /\ phase' = "serving"
    /\ UNCHANGED <<pc, tool, params, request, response, scopes, clock, result, entry,
                   CLIENT_ID, CLIENT_SECRET, token_valid, registered, inflight>>

\* what the upstream answers a served call with
StartupResponses ==
    {PyDict(<<Item(K.status_code, PyInt(c)), Item(K.body, b)>>) :
        c \in {200, 401},
        b \in {EmptyDict,
               PyDict(<<Item(K.resources, PyList(<<ActorA>>))>>),
               PyDict(<<Item(K.errors,
                             PyList(<<PyDict(<<Item(K.code, PyInt(401)),
                                               Item(K.message, PyStr(M.AccessDenied))>>)>>))>>)}}

StartupNext ==
    \/ CheckCredentials
    \/ \E valid \in BOOLEAN : Login(valid)
    \/ \E valid \in BOOLEAN : CreateClients(valid)
    \/ RegisterTools
    \/ Run
    \/ InvokeAny
    \/ \E r \in StartupResponses : UpstreamReturns(r)
    \/ UpstreamRaises(E.Timeout)
    \/ Finish

SpecStartup == StartupInit /\ [][StartupNext]_vars

-----------------------------------------------------------------------------
(* Several invocations in progress at once *)

\* the invocations the host has in progress at once
MaxInvocations == 2

Invocations == 1..MaxInvocations

\* the frame of an invocation: its position, its arguments and locals, and
\* the number of calls it made on the upstream client
IdleFrame ==
    [pc |-> "idle", tool |-> Unused, params |-> Unused, request |-> Unused,
     response |-> Unused, result |-> NoResult, calls |-> 0]

\* the frame of handler t entered with arguments p, at its upstream call
AtCall(t, p, now) ==
    [pc |-> "calling", tool |-> t, params |-> p, request |-> RequestOf(t, p, now),
     response |-> Unused, result |-> NoResult, calls |-> 1]

\* variant: a status other than 200 makes the handler call a second time
OnResponseRetry(frame, upstream) ==
    IF ~IsExc(upstream) /\ Get(upstream, K.status_code, PyNone) # PyInt(200)
       /\ frame.calls = 1
    THEN [frame EXCEPT !.calls = 2]
    ELSE [frame EXCEPT !.pc = "done", !.response = upstream,
                       !.result = Handler(frame.tool, frame.params, upstream)]

\* the frame after its upstream call produced `upstream`, a response or an
\* exception: the handler runs to its return
OnResponse(frame, upstream) ==
    [frame EXCEPT !.pc = "done", !.response = upstream,
                  !.result = Handler(frame.tool, frame.params, upstream)]

ConcurrentTools == {"list_threat_actors", "get_actor_iocs"}

ConcurrentArgs(t) ==
    CASE t = "list_threat_actors" -> {[limit |-> PyInt(ListDefaultLimit)]}
      [] t = "get_actor_iocs" ->
            {[actor_name |-> a, limit |-> PyInt(ActorIocsDefaultLimit)] : a \in ActorNames}

\* what an upstream call produces: a response, or the exception it raises
ConcurrentOutcomes ==
    {PyDict(<<Item(K.status_code, PyInt(200)),
              Item(K.body, PyDict(<<Item(K.resources, PyList(rs))>>))>>) :
        rs \in {<<>>, <<IocA, IocB>>}}
    \cup {PyDict(<<Item(K.status_code, PyInt(403)),
                   Item(K.body,
                        PyDict(<<Item(K.errors,
                                      PyList(<<PyDict(<<Item(K.code, PyInt(403)),
                                                        Item(K.message,
                                                             PyStr(M.AccessDenied))>>)>>))>>))>>)}
    \cup {PyExc(E.Timeout)}

ConcurrentInit ==
    /\ pc = "idle"
    /\ tool = Unused
    /\ params = Unused
    /\ request = Unused
    /\ response = Unused
    /\ scopes = Unused
    /\ clock = 0
    /\ result = NoResult
    /\ Started
    /\ inflight = [i \in Invocations |-> IdleFrame]

\* The host invokes handler t as invocation i, others being in progress or
\* not; the handler runs up to its call on the upstream client.
Begin(i, t, p) ==
    /\ phase = "serving"
    /\ t \in registered
    /\ inflight[i].pc = "idle"
    /\ inflight' = [inflight EXCEPT ![i] = AtCall(t, p, 0)]
    /\ UNCHANGED <<pc, tool, params, request, response, scopes, clock, result, startup>>

\* The upstream call of invocation i returns or raises.
Resume(i, upstream) ==
    /\ inflight[i].pc = "calling"
    /\ inflight' = [inflight EXCEPT ![i] = OnResponse(@, upstream)]
    /\ UNCHANGED <<pc, tool, params, request, response, scopes, clock, result, startup>>

\* The host takes the result of invocation i.
Take(i) ==
    /\ inflight[i].pc = "done"
    /\ inflight' = [inflight EXCEPT ![i] = IdleFrame]
    /\ UNCHANGED <<pc, tool, params, request, response, scopes, clock, result, startup>>

ConcurrentNext ==
    \/ \E i \in Invocations : \E t \in ConcurrentTools : \E p \in ConcurrentArgs(t) :
           Begin(i, t, p)
    \/ \E i \in Invocations : \E u \in ConcurrentOutcomes : Resume(i, u)
    \/ \E i \in Invocations : Take(i)

SpecConcurrent == ConcurrentInit /\ [][ConcurrentNext]_vars

-----------------------------------------------------------------------------
(* Texts the properties name *)

\* 'API Access Denied (403)'
C3_Phrase ==
    <<"A","P","I"," ","A","c","c","e","s","s"," ","D","e","n","i","e","d"," ","(","4","0",
      "3",")">>

\* 'No IOCs published in the last 7 days'
C6_Recent7 ==
    <<"N","o"," ","I","O","C","s"," ","p","u","b","l","i","s","h","e","d"," ","i","n"," ",
      "t","h","e"," ","l","a","s","t"," ","7"," ","d","a","y","s">>

\* "labels.name:*'MitreATTCK/**'"
C9_EmptyMitreClause ==
    <<"l","a","b","e","l","s",".","n","a","m","e",":","*","'","M","i","t","r","e","A","T",
      "T","C","K","/","*","*","'">>

\* "labels.name:*'MitreATTCK/*T1566*'"
C10_T1566Filter ==
    <<"l","a","b","e","l","s",".","n","a","m","e",":","*","'","M","i","t","r","e","A","T",
      "T","C","K","/","*","T","1","5","6","6","*","'">>

\* "indicator:'O'Reilly'+type:'hash_sha256'+malware_families:'Emotet'+threat_types:'Banking'+malicious_confidence:'high'+published_date:>'2025-01-31'+labels.name:*'MitreATTCK/*T1566*'"
C10_FullFilter ==
    <<"i","n","d","i","c","a","t","o","r",":","'","O","'","R","e","i","l","l","y","'","+",
      "t","y","p","e",":","'","h","a","s","h","_","s","h","a","2","5","6","'","+","m","a",
      "l","w","a","r","e","_","f","a","m","i","l","i","e","s",":","'","E","m","o","t","e",
      "t","'","+","t","h","r","e","a","t","_","t","y","p","e","s",":","'","B","a","n","k",
      "i","n","g","'","+","m","a","l","i","c","i","o","u","s","_","c","o","n","f","i","d",
      "e","n","c","e",":","'","h","i","g","h","'","+","p","u","b","l","i","s","h","e","d",
      "_","d","a","t","e",":",">","'","2","0","2","5","-","0","1","-","3","1","'","+","l",
      "a","b","e","l","s",".","n","a","m","e",":","*","'","M","i","t","r","e","A","T","T",
      "C","K","/","*","T","1","5","6","6","*","'">>

-----------------------------------------------------------------------------
(* Properties *)

\* the status code and the body format_response and the handlers read
StatusOf(r) == Get(r, K.status_code, PyNone)
BodyOf(r) == Get(r, K.body, EmptyDict)

\* the resources of a response, [] when the body has none
ResourcesOf(r) == Get(BodyOf(r), K.resources, PyList(<<>>)).l

\* the response in hand is a 403 whose errors list has a first entry with a message
Has403Message ==
    /\ response.t = "dict"
    /\ StatusOf(response) = PyInt(403)
    /\ HasKey(BodyOf(response), K.errors)
    /\ Lookup(BodyOf(response), K.errors).l # <<>>
    /\ HasKey(Lookup(BodyOf(response), K.errors).l[1], K.message)

FirstMessage == Lookup(Lookup(BodyOf(response), K.errors).l[1], K.message).s

\* the message names an authorization failure, in any letter case
NamesAuthorizationFailure(m) ==
    \/ Contains(Lower(m), S.AccessDenied)
    \/ Contains(Lower(m), S.AuthorizationFailed)

\* C1: whenever the upstream call of a handler raised an exception with
\* message m, the handler returned "Error: " followed by m; the exception did
\* not leave the handler.
C1_UpstreamErrorReturned ==
    (pc = "done" /\ IsExc(response))
        => (tool \in Tools /\ result = Returned(S.Error \o response.m))

C1_Witness ==
    /\ pc = "done"
    /\ tool = "get_recent_iocs"
    /\ response = PyExc(E.Refused)
    /\ result.kind = "return"
    /\ result.s = S.Error \o E.Refused

\* C2: for a 403 whose first error message names no authorization failure,
\* format_response returns "API Error: 403 - {errors list}", whatever
\* required_scopes is.
C2_Generic403 ==
    (pc = "formatted" /\ Has403Message /\ ~NamesAuthorizationFailure(FirstMessage))
        => result = Returned(S.ApiError \o IntToStr(403) \o S.Dash
                             \o Repr(Lookup(BodyOf(response), K.errors)))

\* C3: for a 403 whose first error message names an authorization failure in
\* any letter case, format_response returns a text that contains "API Access
\* Denied (403)", the required scopes ("appropriate API scopes" when none is
\* given) and the original message.
C3_AccessDeniedGuidance ==
    (pc = "formatted" /\ Has403Message /\ NamesAuthorizationFailure(FirstMessage))
        => /\ result.kind = "return"
           /\ Contains(result.s, C3_Phrase)
           /\ Contains(result.s,
                       IF scopes \in {PyNone, PyStr(<<>>)} THEN S.AppropriateScopes
                       ELSE scopes.s)
           /\ Contains(result.s, FirstMessage)

C3_Witness ==
    /\ pc = "formatted"
    /\ Has403Message
    /\ FirstMessage = M.AccessDenied
    /\ scopes = PyNone
    /\ result.kind = "return"
    /\ StartsWith(result.s, C3_Phrase)
    /\ Contains(result.s, S.AppropriateScopes)

\* C4: for a status code other than 200, 201 and 403, format_response returns
\* exactly "API Error: {status code} - {errors}", errors being the textual form
\* of body.errors, or of ['Unknown error'] when the body has no errors; the
\* text starts with "API Error: {status code}".
C4_GenericError ==
    (pc = "formatted" /\ StatusOf(response) \notin {PyInt(200), PyInt(201), PyInt(403)})
        => LET code == IntToStr(StatusOf(response).n)
               errors == IF HasKey(BodyOf(response), K.errors)
                         THEN Lookup(BodyOf(response), K.errors)
                         ELSE PyList(<<PyStr(S.UnknownError)>>)
           IN /\ result = Returned(S.ApiError \o code \o S.Dash \o Repr(errors))
              /\ StartsWith(result.s, S.ApiError \o code)

C4_Witness ==
    /\ pc = "formatted"
    /\ StatusOf(response) = PyInt(500)
    /\ ~HasKey(BodyOf(response), K.errors)
    /\ result.kind = "return"
    /\ Contains(result.s, S.UnknownError)

\* C5: applied to a response with status code 200 or 201, format_response
\* returns a text whose JSON decoding equals the body of the response, and
\* leaves the response as it was.
C5_SuccessRoundTrip ==
    [][(pc = "format" /\ pc' = "formatted"
            /\ StatusOf(response) \in {PyInt(200), PyInt(201)})
        => (/\ response' = response
            /\ result'.kind = "return"
            /\ JsonLoads(result'.s) = BodyOf(response))]_vars

C5_Witness ==
    /\ pc = "formatted"
    /\ StatusOf(response) = PyInt(201)
    /\ ResourcesOf(response) = <<IocC, IocA>>
    /\ result.kind = "return"
    /\ JsonLoads(result.s) = BodyOf(response)

\* the upstream call of the invocation returned status code 200
Succeeded == pc = "done" /\ response.t = "dict" /\ StatusOf(response) = PyInt(200)

\* C6: when the upstream call succeeds with an empty resources list, the
\* handler returns exactly the not-found sentence of its tool, completed with
\* the indicator value, the actor name or the number of days it was invoked with.
C6_NotFoundSentence ==
    (Succeeded /\ ResourcesOf(response) = <<>>)
        => result =
            Returned(CASE tool = "list_threat_actors" -> S.NoActors
                       [] tool = "get_actor_details" -> S.NoActorDetails
                       [] tool = "search_iocs" -> S.NoIocsMatching
                       [] tool = "get_ioc_details" ->
                            S.NoIocFor \o params.indicator_value.s
                       [] tool = "get_actor_iocs" ->
                            S.NoIocsForActor \o params.actor_name.s
                       [] tool = "get_recent_iocs" ->
                            S.NoIocsPublished \o IntToStr(params.days.n) \o S.Days)

C6_Witness ==
    /\ Succeeded
    /\ tool = "get_recent_iocs"
    /\ params.days = PyInt(7)
    /\ HasKey(BodyOf(response), K.resources)
    /\ ResourcesOf(response) = <<>>
    /\ result = Returned(C6_Recent7)

\* C7: when the upstream response has status code 200 or 201 and its resources
\* list is not empty, the handler returns the JSON encoding of the envelope of
\* its tool built from the resources: {"actors": resources} for
\* list_threat_actors, {"iocs": resources} for search_iocs.
C7_EnvelopeOn200And201 ==
    (/\ pc = "done"
     /\ response.t = "dict"
     /\ StatusOf(response) \in {PyInt(200), PyInt(201)}
     /\ ResourcesOf(response) # <<>>
     /\ tool \in {"list_threat_actors", "search_iocs"})
        => LET key == IF tool = "search_iocs" THEN K.iocs ELSE K.actors IN
           /\ result.kind = "return"
           /\ JsonLoads(result.s)
                = PyDict(<<Item(key, PyList(ResourcesOf(response)))>>)

\* the type get_actor_iocs files a record under
TypeOf(ioc) == IF HasKey(ioc, K.type) THEN Lookup(ioc, K.type).s ELSE S.Unknown

\* what get_actor_iocs keeps of a record
Kept(ioc) ==
    PyDict(<<Item(K.indicator, Get(ioc, K.indicator, PyNone)),
             Item(K.malicious_confidence, Get(ioc, K.malicious_confidence, PyNone)),
             Item(K.malware_families, Get(ioc, K.malware_families, PyList(<<>>)))>>)

\* the resources of type k, in upstream order
OfType(rs, k) == SelectSeq(rs, LAMBDA ioc : TypeOf(ioc) = k)

RECURSIVE SumOfLengths(_)
SumOfLengths(items) ==
    IF items = <<>> THEN 0 ELSE Len(items[1].v.l) + SumOfLengths(Tail(items))

\* C8: the payload get_actor_iocs returns for a successful response with
\* resources: the keys of iocs_by_type are the types that occur in the
\* resources ("unknown" for a record without type), each once; the list of a
\* type holds the records of that type in upstream order, so every record is
\* listed once; total_iocs is the number of resources and the sum of the
\* lengths of the lists; actor is the actor_name argument.
C8_GroupedByType ==
    (Succeeded /\ tool = "get_actor_iocs" /\ ResourcesOf(response) # <<>>)
        => /\ result.kind = "return"
           /\ LET rs == ResourcesOf(response)
                  payload == JsonLoads(result.s)
                  by_type == Lookup(payload, K.iocs_by_type)
              IN /\ {by_type.d[i].k : i \in 1..Len(by_type.d)}
                        = {TypeOf(rs[i]) : i \in 1..Len(rs)}
                 /\ \A i, j \in 1..Len(by_type.d) :
                        by_type.d[i].k = by_type.d[j].k => i = j
                 /\ \A i \in 1..Len(by_type.d) :
                        by_type.d[i].v.l
                            = [n \in 1..Len(OfType(rs, by_type.d[i].k)) |->
                                   Kept(OfType(rs, by_type.d[i].k)[n])]
                 /\ Lookup(payload, K.total_iocs) = PyInt(Len(rs))
                 /\ SumOfLengths(by_type.d) = Len(rs)
                 /\ Lookup(payload, K.actor) = params.actor_name

C8_Witness ==
    /\ Succeeded
    /\ tool = "get_actor_iocs"
    /\ ResourcesOf(response) = <<IocA, IocB>>
    /\ result.kind = "return"
    /\ LET by_type == Lookup(JsonLoads(result.s), K.iocs_by_type) IN
       /\ Len(by_type.d) = 2
       /\ by_type.d[1].k = V.domain
       /\ by_type.d[2].k = V.hash_md5

\* the filter keyword argument of the upstream call in progress
FilterPassed == Lookup(request.kwargs, K.filter)

\* the clauses an empty value would give
EmptyClauses ==
    {F.indicator \o S.Quote, F.type \o S.Quote, F.malware_families \o S.Quote,
     F.threat_types \o S.Quote, F.malicious_confidence \o S.Quote,
     F.published_date \o S.Quote, C9_EmptyMitreClause}

SearchCalled == pc \in {"calling", "done"} /\ tool = "search_iocs"

FilterArgs(p) ==
    <<p.indicator_value, p.indicator_type, p.malware_family, p.threat_type,
      p.malicious_confidence, p.published_after, p.mitre_technique>>

\* C9: search_iocs invoked with none of its seven filter arguments set passes
\* None as the filter; and whatever the arguments, the filter it passes is
\* never the empty string and holds no clause with an empty value.
C9_NoEmptyFilter ==
    SearchCalled
        => /\ (\A i \in 1..7 : FilterArgs(params)[i] \in {PyNone, PyStr(<<>>)})
                => FilterPassed = PyNone
           /\ FilterPassed # PyStr(<<>>)
           /\ FilterPassed # PyNone
                => \A c \in EmptyClauses : ~Contains(FilterPassed.s, c)

C9_Witness ==
    /\ pc = "calling"
    /\ tool = "search_iocs"
    /\ \A i \in 1..7 : FilterArgs(params)[i] = PyNone
    /\ FilterPassed = PyNone

\* the clause of the i-th filter argument for value v
ClauseOf(i, v) ==
    CASE i = 1 -> F.indicator \o v \o S.Quote
      [] i = 2 -> F.type \o v \o S.Quote
      [] i = 3 -> F.malware_families \o v \o S.Quote
      [] i = 4 -> F.threat_types \o v \o S.Quote
      [] i = 5 -> F.malicious_confidence \o v \o S.Quote
      [] i = 6 -> F.published_date \o v \o S.Quote
      [] i = 7 -> F.labels_name \o v \o F.labels_tail

\* the clauses of the arguments i..7 that are present, joined by "+"
RECURSIVE JoinedFrom(_, _, _)
JoinedFrom(args, i, first) ==
    IF i > 7 THEN <<>>
    ELSE IF args[i] \in {PyNone, PyStr(<<>>)} THEN JoinedFrom(args, i + 1, first)
    ELSE (IF first THEN <<>> ELSE S.Plus) \o ClauseOf(i, args[i].s)
         \o JoinedFrom(args, i + 1, FALSE)

\* C10: when at least one filter argument of search_iocs is present, the
\* filter passed upstream is the "+"-join of one clause per present argument
\* in the order indicator, type, malware_families, threat_types,
\* malicious_confidence, published_date, labels.name, the value copied as it
\* is; mitre_technique="T1566" alone gives labels.name:*'MitreATTCK/*T1566*'.
C10_FilterString ==
    SearchCalled
        => /\ (\E i \in 1..7 : FilterArgs(params)[i] \notin {PyNone, PyStr(<<>>)})
                => FilterPassed = PyStr(JoinedFrom(FilterArgs(params), 1, TRUE))
           /\ (/\ params.mitre_technique = PyStr(V.T1566)
               /\ \A i \in 1..6 : FilterArgs(params)[i] = PyNone)
                => FilterPassed = PyStr(C10_T1566Filter)

C10_Witness ==
    /\ pc = "calling"
    /\ tool = "search_iocs"
    /\ params.indicator_value = PyStr(V.OReilly)
    /\ \A i \in 1..7 : Truthy(FilterArgs(params)[i])
    /\ FilterPassed = PyStr(C10_FullFilter)

\* C13: for a 403 whose body has no errors list, or an empty one,
\* format_response does not raise: it takes "Unknown error" as the message,
\* which names no authorization failure, and returns the error text of the 403.
C13_403WithoutErrors ==
    (/\ pc = "formatted"
     /\ StatusOf(response) = PyInt(403)
     /\ \/ ~HasKey(BodyOf(response), K.errors)
        \/ Lookup(BodyOf(response), K.errors).l = <<>>)
        => /\ result.kind = "return"
           /\ StartsWith(result.s, S.ApiError \o IntToStr(403))

\* the key of the success payload of a handler
PayloadKey(t) ==
    CASE t = "get_ioc_details" -> K.ioc_details
      [] t = "get_actor_iocs" -> K.iocs_by_type
      [] t = "get_recent_iocs" -> K.recent_iocs

\* the value a missing field is reported with: None, or [] for the list fields
DefaultOf(k) ==
    IF k \in {K.malware_families, K.threat_types, K.actors, K.reports, K.relations}
    THEN PyList(<<>>)
    ELSE PyNone

\* C12: get_ioc_details, get_actor_iocs and get_recent_iocs, on a successful
\* response with non-empty resources, return their success payload whichever
\* fields of a record are absent (the name of a labels entry included), with the
\* missing fields defaulted, and never an "Error: " string.
C12_MissingFieldsDefaulted ==
    (Succeeded /\ tool \in RecordTools /\ ResourcesOf(response) # <<>>)
        => /\ result.kind = "return"
           /\ ~StartsWith(result.s, S.Error)
           /\ LET payload == JsonLoads(result.s) IN
              /\ payload.t = "dict"
              /\ HasKey(payload, PayloadKey(tool))
              /\ tool = "get_ioc_details"
                    => \A k \in IocFields \ {K.labels} :
                           Lookup(Lookup(payload, K.ioc_details), k)
                               = Get(ResourcesOf(response)[1], k, DefaultOf(k))

\* "MitreATTCK/"
C14_Prefix == <<"M","i","t","r","e","A","T","T","C","K","/">>

\* the response r with its first resource only
OnlyFirst(r) ==
    PyDict(<<Item(K.status_code, StatusOf(r)),
             Item(K.body, PyDict(<<Item(K.resources, PyList(<<ResourcesOf(r)[1]>>))>>))>>)

\* the labels whose name starts with "MitreATTCK/", in label order
MitreLabels(ioc) ==
    SelectSeq(Get(ioc, K.labels, PyList(<<>>)).l,
              LAMBDA label : /\ HasKey(label, K.name)
                             /\ StartsWith(Lookup(label, K.name).s, C14_Prefix))

\* C14: get_ioc_details, on a successful response with non-empty resources,
\* builds {"ioc_details": ...} from the first resource only: the result is the
\* one for that resource alone, indicator is that record's indicator, and
\* mitre_techniques holds the names of that record's labels that start with
\* "MitreATTCK/", in label order and verbatim, every other label left out.
C14_DetailsOfFirstResource ==
    (Succeeded /\ tool = "get_ioc_details" /\ ResourcesOf(response) # <<>>)
        => /\ result.kind = "return"
           /\ result = Handler(tool, params, OnlyFirst(response))
           /\ LET payload == JsonLoads(result.s)
                  first == ResourcesOf(response)[1]
                  mitre == MitreLabels(first)
              IN /\ payload.t = "dict"
                 /\ HasKey(payload, K.ioc_details)
                 /\ Lookup(Lookup(payload, K.ioc_details), K.indicator)
                        = Get(first, K.indicator, PyNone)
                 /\ Lookup(Lookup(payload, K.ioc_details), K.mitre_techniques)
                        = PyList([i \in 1..Len(mitre) |-> Lookup(mitre[i], K.name)])

\* C11 as stated: a handler is invoked, and a tool registered, only after
\* startup found both credentials present and non-empty and the
\* authentication initialization completed with a valid token; with a
\* credential missing, startup fails before any tool is registered and no
\* invocation ever reports it.
C11_InvokedOnlyWithValidToken ==
    /\ (pc # "idle" \/ registered # {})
           => Truthy(CLIENT_ID) /\ Truthy(CLIENT_SECRET) /\ token_valid
    /\ ((~Truthy(CLIENT_ID) \/ ~Truthy(CLIENT_SECRET)) /\ phase # "environment")
           => /\ phase = "ValueError"
              /\ registered = {}
              /\ pc = "idle"
              /\ result = NoResult

\* C11, amended: a handler is invoked, and a tool registered, only after
\* startup found both credentials present and non-empty and, under the
\* package mcp_crowdstrike, after login completed with a valid token (the
\* script server.py registers its tools without looking at the token); with a
\* credential missing, startup fails with ValueError before any tool is
\* registered and no invocation ever reports it.
C11_InvokedOnlyAfterStartup ==
    /\ (pc # "idle" \/ registered # {})
           => /\ Truthy(CLIENT_ID)
              /\ Truthy(CLIENT_SECRET)
              /\ entry = "mcp_crowdstrike" => token_valid
              /\ pc # "idle" => phase = "serving" /\ tool \in registered
    /\ ((~Truthy(CLIENT_ID) \/ ~Truthy(CLIENT_SECRET)) /\ phase # "environment")
           => /\ phase = "ValueError"
              /\ registered = {}
              /\ pc = "idle"
              /\ result = NoResult

C11_Witness ==
    /\ pc = "done"
    /\ entry = "mcp_crowdstrike"
    /\ token_valid
    /\ result.kind = "return"
    /\ StatusOf(response) = PyInt(401)

\* C15: with several invocations in progress at once, in every step: each
\* finished invocation holds the result its handler returns, run alone, for
\* its own parameters and its own upstream outcome; the step changes the frame
\* of one invocation and no other; it leaves the credentials, the
\* authentication state and the tool registry as they were; and no
\* invocation has made more than one upstream call.
C15_InvocationsIndependent ==
    [][/\ \A i \in Invocations :
              inflight'[i].pc = "done"
                  => inflight'[i].result
                         = Handler(inflight'[i].tool, inflight'[i].params,
                                   inflight'[i].response)
       /\ \A i, j \in Invocations :
              (i # j /\ inflight'[i] # inflight[i]) => inflight'[j] = inflight[j]
       /\ UNCHANGED startup
       /\ \A i \in Invocations : inflight'[i].calls <= 1]_vars

C15_Witness ==
    \E i, j \in Invocations :
        /\ i # j
        /\ inflight[i].pc = "done"
        /\ inflight[j].pc = "calling"
        /\ inflight[i].tool = "get_actor_iocs"
        /\ inflight[j].tool = "get_actor_iocs"
        /\ inflight[i].params # inflight[j].params
        /\ inflight[i].result.kind = "return"
        /\ StartsWith(inflight[i].result.s, <<"{">>)

====
